---- MODULE Spec2Model ----
(***************************************************************************)
(* Model of main.py: the Cloud Function check_flights_and_update and the   *)
(* helpers it calls.  The five storage objects of the bucket are the       *)
(* durable state; one Run step is one invocation of the function.          *)
(* Spec is the function invoked run after run; TrendSpec applies           *)
(* generate_and_upload_graph to a history given in any row order; CalSpec  *)
(* renders the calendar of create_final_html_dashboard for one flight.     *)
(***************************************************************************)
EXTENDS Integers, Sequences, FiniteSets, TLC

VARIABLES
    jsonBlob,        \* prices.json: the persisted Snapshot, <<>> when the object is missing
    csvBlob,         \* price_history.csv: the History rows, <<>> when the object is missing
    runCountBlob,    \* run_count.txt: <<>> when missing, else <<n>>
    graphBlob,       \* price_history_graph.png: <<>> when missing, else <<plotted series>>
    htmlBlob,        \* index.html: <<>> when missing, else <<report>>
    now,             \* number of invocations so far; the wall clock of a run
    current,         \* current_flights_df of the last invocation
    price_changes,   \* rows of the change alert handed to send_email in the last invocation
    summarySent,     \* the last invocation handed the periodic summary to send_email
    abortAt,         \* where the last invocation stopped: "none" when it ran to its end
    persisted,       \* number of invocations that uploaded run_count.txt
    completed,       \* number of invocations that ran to their end
    failures,        \* number of storage writes that failed so far
    trend_history,   \* the history_df handed to generate_and_upload_graph on its own
    trend_out,       \* <<>> before that call, else <<its result>>
    cal_today,       \* date.today() of a calendar rendering
    cal_flight,      \* ordinal of the date of the flight rendered, 0 before the rendering
    cal_cells        \* the calendar cells that list the flight

pipeline == <<jsonBlob, csvBlob, runCountBlob, graphBlob, htmlBlob, now, current,
              price_changes, summarySent, abortAt, persisted, completed, failures>>
trend == <<trend_history, trend_out>>
cal == <<cal_today, cal_flight, cal_cells>>
vars == <<pipeline, trend, cal>>

\* ---------------------------------------------------------------- bounds
MaxRuns == 6
MaxHistory == 2
MaxFailures == 1
MaxWeek == 5

\* ---------------------------------------------------------- configuration
NOTIFICATION_CHECKS_INTERVAL == 6
MonthBlocks == 12

\* ------------------------------------------------------ the price source
\* Departures the price source can return.  A DateTime is a calendar date and
\* a time of day; the first two departures share route and date.
Departures ==
    << [From |-> "DUB", To |-> "VIE", DateTime |-> [date |-> 1, time |-> 1]],
       [From |-> "DUB", To |-> "VIE", DateTime |-> [date |-> 1, time |-> 2]],
       [From |-> "VIE", To |-> "DUB", DateTime |-> [date |-> 2, time |-> 1]] >>

Prices == {20, 30}

\* The prices each departure is quoted at, in the order of Departures.
Quoted == << {20, 30}, {30}, {20} >>

NotFound == 0

Quote(i, p) ==
    [From |-> Departures[i].From, To |-> Departures[i].To,
     DateTime |-> Departures[i].DateTime, Price |-> p]

\* The data frame built from the flights found: one row per departure found,
\* in query order; an empty frame when nothing was found.
FrameOf(found) ==
    LET idx == SelectSeq([i \in 1..Len(Departures) |-> i], LAMBDA i : found[i] # NotFound)
    IN  [j \in 1..Len(idx) |-> Quote(idx[j], found[idx[j]])]

get_flight_prices ==
    { FrameOf(found) :
        found \in { f \in [1..Len(Departures) -> Prices \cup {NotFound}] :
                      \A i \in 1..Len(Departures) : f[i] \in Quoted[i] \cup {NotFound} } }

\* ---------------------------------------------------------- change alert
\* strftime('%Y-%m-%d') of a DateTime keeps the date and drops the time.
DateStr(dt) == dt.date

WithDateStr(df) ==
    [i \in 1..Len(df) |->
        [From |-> df[i].From, To |-> df[i].To, DateTime |-> df[i].DateTime,
         Price |-> df[i].Price, DateStr |-> DateStr(df[i].DateTime)]]

\* Rows of the previous frame with the merge key (DateStr, From, To) of row c.
Matches(c, previous_prices_df) ==
    SelectSeq(previous_prices_df,
              LAMBDA p : /\ DateStr(p.DateTime) = DateStr(c.DateTime)
                         /\ p.From = c.From
                         /\ p.To = c.To)

\* Rows a left merge produces for the current row c: one per matching previous
\* row, or one with a missing previous price.
MergeRow(c, previous_prices_df) ==
    LET m == Matches(c, previous_prices_df)
    IN  IF m = <<>>
        THEN << [From |-> c.From, To |-> c.To, DateTime |-> c.DateTime,
                 Price |-> c.Price, PreviousPrice |-> <<>>] >>
        ELSE [k \in 1..Len(m) |->
                [From |-> c.From, To |-> c.To, DateTime |-> c.DateTime,
                 Price |-> c.Price, PreviousPrice |-> <<m[k].Price>>]]

RECURSIVE merge(_, _)
merge(current_flights_df, previous_prices_df) ==
    IF current_flights_df = <<>> THEN <<>>
    ELSE MergeRow(Head(current_flights_df), previous_prices_df)
           \o merge(Tail(current_flights_df), previous_prices_df)

\* The rows of the alert: price changed, or no previous price.
generate_price_change_html(comparison_df) ==
    SelectSeq(comparison_df,
              LAMBDA r : \/ r.PreviousPrice = <<>>
                         \/ r.Price # r.PreviousPrice[1])

\* ---------------------------------------------------------------- history
df_to_log(current_flights_df, check_time) ==
    [i \in 1..Len(current_flights_df) |->
        [CheckTime |-> check_time,
         FlightDateTime |-> current_flights_df[i].DateTime,
         From |-> current_flights_df[i].From,
         To |-> current_flights_df[i].To,
         Price |-> current_flights_df[i].Price]]

\* The history written without the rows loaded from storage.
new_history_df_overwrite(history_df, rows) == rows

new_history_df(history_df, rows) == history_df \o rows

\* ------------------------------------------------------------ run counter
run_count_read(blob) == IF blob = <<>> THEN 1 ELSE blob[1] + 1

summary_due(run_count) == run_count % NOTIFICATION_CHECKS_INTERVAL = 0

\* The counter written without the reset at a multiple of the interval.
run_count_upload_no_reset(run_count) == run_count

run_count_upload(run_count) == IF summary_due(run_count) THEN 0 ELSE run_count

\* generate_full_price_html raises on a non-empty frame: it sorts by the
\* DateTime column after selecting the columns Date, From, To, Price.
generate_full_price_html_raises(current_flights_df) == current_flights_df # <<>>

\* ------------------------------------------------------------ trend chart
FlightLabel(row) == <<row.From, row.To, DateStr(row.FlightDateTime)>>

Labels(history_df) == { FlightLabel(history_df[i]) : i \in 1..Len(history_df) }

Group(history_df, label) == SelectSeq(history_df, LAMBDA r : FlightLabel(r) = label)

\* The lines drawn on the chart: one per label with more than one row, its
\* points in the order of the rows.
PlottedLines(history_df) ==
    { [label |-> l,
       points |-> [i \in 1..Len(Group(history_df, l)) |->
                      <<Group(history_df, l)[i].CheckTime, Group(history_df, l)[i].Price>>]]
      : l \in { l \in Labels(history_df) : Len(Group(history_df, l)) > 1 } }

\* Result of generate_and_upload_graph when the upload succeeds.
graph_drawn(history_df) == Len(history_df) >= 2

\* create_final_html_dashboard raises when the graph is available: it calls
\* time.time() and the module time is not imported.
create_final_html_dashboard_raises(graph_available) == graph_available

create_final_html_dashboard(all_flights_df, graph_available, updated) ==
    [calendar |-> IF all_flights_df = <<>> THEN "No flights were found during the last check."
                  ELSE "calendar",
     graph |-> IF graph_available THEN "img" ELSE "placeholder",
     updated |-> updated]

\* ------------------------------------------------------------- storage
Failures == {"none", "snapshot", "history", "counter", "graph", "report"}

\* prices.json written also when no flight was found.
uploaded_prices_unguarded(stored, current_flights_df, fail) ==
    IF fail # "snapshot" THEN current_flights_df ELSE stored

\* prices.json after the invocation.
uploaded_prices(stored, current_flights_df, fail) ==
    IF current_flights_df # <<>> /\ fail # "snapshot" THEN current_flights_df ELSE stored

\* ------------------------------------------------------------ invocation
check_flights_and_update(fetched, fail) ==
    LET previous_prices_df == jsonBlob
        history_df         == csvBlob
        compare            == fetched # <<>> /\ previous_prices_df # <<>>
        current_flights_df == IF compare THEN WithDateStr(fetched) ELSE fetched
        changes            == IF compare
                              THEN generate_price_change_html(
                                       merge(current_flights_df, previous_prices_df))
                              ELSE <<>>
        check_time         == now + 1
        appended           == new_history_df(history_df,
                                             df_to_log(current_flights_df, check_time))
        okSnapshot         == fetched = <<>> \/ fail # "snapshot"
        okHistory          == okSnapshot /\ (fetched = <<>> \/ fail # "history")
        history_after      == IF fetched # <<>> THEN appended ELSE history_df
        run_count          == run_count_read(runCountBlob)
        due                == summary_due(run_count)
        okSummary          == okHistory
                              /\ ~(due /\ generate_full_price_html_raises(current_flights_df))
        okCounter          == okSummary /\ fail # "counter"
        graph_available    == graph_drawn(history_after)
        okGraph            == okCounter /\ (graph_available => fail # "graph")
        okDashboard        == okGraph /\ ~create_final_html_dashboard_raises(graph_available)
        okReport           == okDashboard /\ fail # "report"
        stop               == CASE ~okSnapshot  -> "snapshot"
                                [] ~okHistory   -> "history"
                                [] ~okSummary   -> "summary"
                                [] ~okCounter   -> "counter"
                                [] ~okGraph     -> "graph"
                                [] ~okDashboard -> "dashboard"
                                [] ~okReport    -> "report"
                                [] OTHER        -> "none"
    IN  /\ now < MaxRuns
        /\ Len(csvBlob) + Len(fetched) <= MaxHistory
        /\ fail # "none" => (stop = fail /\ failures < MaxFailures)
        /\ failures' = IF fail # "none" THEN failures + 1 ELSE failures
        /\ now' = check_time
        /\ current' = current_flights_df
        /\ price_changes' = changes
        /\ jsonBlob' = uploaded_prices(jsonBlob, current_flights_df, fail)
        /\ csvBlob' = IF fetched # <<>> /\ okHistory THEN appended ELSE csvBlob
        /\ summarySent' = (okSummary /\ due)
        /\ runCountBlob' = IF okCounter THEN <<run_count_upload(run_count)>> ELSE runCountBlob
        /\ graphBlob' = IF okGraph /\ graph_available
                        THEN <<PlottedLines(history_after)>> ELSE graphBlob
        /\ htmlBlob' = IF okReport
                       THEN <<create_final_html_dashboard(current_flights_df,
                                                          graph_available, check_time)>>
                       ELSE htmlBlob
        /\ abortAt' = stop
        /\ persisted' = IF okCounter THEN persisted + 1 ELSE persisted
        /\ completed' = IF okReport THEN completed + 1 ELSE completed
        /\ UNCHANGED <<trend, cal>>

Run == \E fetched \in get_flight_prices, fail \in Failures :
           check_flights_and_update(fetched, fail)

\* State of the bucket and of the function before the first invocation.
PipelineInit ==
    /\ jsonBlob = <<>>
    /\ csvBlob = <<>>
    /\ graphBlob = <<>>
    /\ htmlBlob = <<>>
    /\ now = 0
    /\ current = <<>>
    /\ price_changes = <<>>
    /\ summarySent = FALSE
    /\ abortAt = "none"
    /\ persisted = 0
    /\ completed = 0
    /\ failures = 0

NoDate == [year |-> 0, month |-> 0, day |-> 0]

TrendIdle == trend_history = <<>> /\ trend_out = <<>>

CalIdle == cal_today = NoDate /\ cal_flight = 0 /\ cal_cells = {}

Init ==
    /\ PipelineInit
    /\ runCountBlob \in {<<>>, <<0>>}
    /\ TrendIdle
    /\ CalIdle

Next == Run

Spec == Init /\ [][Next]_vars

\* ------------------------------------------------- the trend chart alone
\* Histories handed to generate_and_upload_graph: rows in any order.
HistoryRows ==
    { [CheckTime |-> t, FlightDateTime |-> Departures[i].DateTime,
       From |-> Departures[i].From, To |-> Departures[i].To, Price |-> p]
      : t \in 1..MaxRuns, i \in 1..Len(Departures), p \in Prices }

Histories == UNION { [1..n -> HistoryRows] : n \in 0..MaxHistory }

generate_and_upload_graph(history_df) ==
    [graph_available |-> graph_drawn(history_df),
     lines |-> IF graph_drawn(history_df) THEN PlottedLines(history_df) ELSE {}]

RenderTrend ==
    /\ trend_out = <<>>
    /\ trend_out' = <<generate_and_upload_graph(trend_history)>>
    /\ UNCHANGED <<trend_history, pipeline, cal>>

TrendInit ==
    /\ PipelineInit
    /\ runCountBlob = <<>>
    /\ trend_history \in Histories
    /\ trend_out = <<>>
    /\ CalIdle

TrendNext == RenderTrend

TrendSpec == TrendInit /\ [][TrendNext]_vars

\* ---------------------------------------------------- the calendar alone
\* Proleptic Gregorian dates, as datetime.date and calendar.Calendar compute.
IsLeap(y) == (y % 4 = 0) /\ ((y % 100 # 0) \/ (y % 400 = 0))

DaysInMonth(y, m) ==
    IF m = 2 THEN (IF IsLeap(y) THEN 29 ELSE 28)
    ELSE IF m \in {4, 6, 9, 11} THEN 30 ELSE 31

DaysBeforeYear(y) == (y - 1) * 365 + (y - 1) \div 4 - (y - 1) \div 100 + (y - 1) \div 400

RECURSIVE DaysBeforeMonth(_, _)
DaysBeforeMonth(y, m) ==
    IF m = 1 THEN 0 ELSE DaysBeforeMonth(y, m - 1) + DaysInMonth(y, m - 1)

toordinal(d) == DaysBeforeYear(d.year) + DaysBeforeMonth(d.year, d.month) + d.day

\* date.weekday(): Monday is 0.
weekday(ordinal) == (ordinal + 6) % 7

\* The dates get_flight_prices asks for: the Monday and the Sunday (outbound)
\* and the Friday (return) on or after today, week by week.
DaysOfWeek == {0, 6, 4}

flight_date(today, week, day_of_week) ==
    toordinal(today) + 7 * week + ((day_of_week - weekday(toordinal(today)) + 7) % 7)

\* Year and month of the i-th month block.
BlockMonth(today, i) ==
    [year  |-> today.year + (today.month + i - 1) \div 12,
     month |-> ((today.month + i - 1) % 12) + 1]

FirstOfMonth(ym) == toordinal([year |-> ym.year, month |-> ym.month, day |-> 1])

LastOfMonth(ym) == FirstOfMonth(ym) + DaysInMonth(ym.year, ym.month) - 1

\* The dates of the full weeks of a month, Monday first.
monthdatescalendar(ym) ==
    (FirstOfMonth(ym) - weekday(FirstOfMonth(ym)))
        .. (LastOfMonth(ym) + (6 - weekday(LastOfMonth(ym))))

\* The cells of the calendar that list a flight of the given date: every cell
\* of every month block whose date is a key of flights_by_date.
CellsListing(today, flight) ==
    { [block |-> i, date |-> c,
       other_month |-> (c < FirstOfMonth(BlockMonth(today, i))
                        \/ c > LastOfMonth(BlockMonth(today, i)))]
      : <<i, c>> \in { ic \in (0..(MonthBlocks - 1)) \X {flight} :
                          ic[2] \in monthdatescalendar(BlockMonth(today, ic[1])) } }

Todays == { [year |-> 2026, month |-> m, day |-> d] : m \in 1..12, d \in {5, 20} }

RenderCalendar ==
    \E week \in 0..MaxWeek, day_of_week \in DaysOfWeek :
        /\ cal_flight' = flight_date(cal_today, week, day_of_week)
        /\ cal_cells' = CellsListing(cal_today, cal_flight')
        /\ UNCHANGED <<cal_today, pipeline, trend>>

CalInit ==
    /\ PipelineInit
    /\ runCountBlob = <<>>
    /\ TrendIdle
    /\ cal_today \in Todays
    /\ cal_flight = 0
    /\ cal_cells = {}

CalNext == RenderCalendar

CalSpec == CalInit /\ [][CalNext]_vars

\* ------------------------------------------------------------ properties
CounterValue == IF runCountBlob = <<>> THEN 0 ELSE runCountBlob[1]

Observations(df) ==
    [i \in 1..Len(df) |->
        [From |-> df[i].From, To |-> df[i].To, DateTime |-> df[i].DateTime,
         Price |-> df[i].Price]]

IsRun == now' = now + 1

C3_Claim ==
    [][ (IsRun /\ jsonBlob = <<>>)
          => /\ Len(price_changes') = Len(current')
             /\ \A i \in 1..Len(price_changes') : price_changes'[i].PreviousPrice = <<>>
      ]_vars

\* C4 as claimed: when the current Snapshot has the keys and prices of the
\* persisted previous Snapshot, the change set is empty and no alert is sent.
C4_Claim ==
    [][ (IsRun /\ Observations(current') = Observations(jsonBlob))
          => price_changes' = <<>>
      ]_vars

\* C5 as claimed: a flight is listed in exactly one cell of the calendar, a
\* cell of its own month block and not an overflow cell of another month.
C5_Claim ==
    cal_flight # 0
      => /\ Cardinality(cal_cells) = 1
         /\ \A cell \in cal_cells : ~cell.other_month

\* C6 as claimed: a chart is uploaded only when some series has at least two
\* rows, and every line of an uploaded chart has at least two points.
C6_Claim ==
    graphBlob # <<>>
      => /\ graphBlob[1] # {}
         /\ \A line \in graphBlob[1] : Len(line.points) >= 2

\* C7 as claimed: an invocation whose Snapshot, History and RunCounter writes
\* succeeded, and whose Report write did not fail, persisted the Report.
C7_Claim ==
    (now > 0 /\ abortAt \in {"none", "graph", "dashboard"})
      => (htmlBlob # <<>> /\ htmlBlob[1].updated = now)

\* C8 as claimed: an invocation that aborts leaves the previous Snapshot, the
\* History and the RunCounter as they were before it.
C8_Claim ==
    [][ (IsRun /\ abortAt' # "none")
          => (jsonBlob' = jsonBlob /\ csvBlob' = csvBlob /\ runCountBlob' = runCountBlob)
      ]_vars

\* C9 as claimed: the points of every line of the chart are in the order of
\* their check times, whatever the order of the rows of the History.
C9_Claim ==
    trend_out # <<>>
      => \A line \in trend_out[1].lines :
            \A i \in 1..(Len(line.points) - 1) :
               line.points[i][1] <= line.points[i + 1][1]

\* C10: an invocation whose current Snapshot is empty sends no change alert and
\* leaves the previous Snapshot and the History as they were, and unless the
\* write of the counter itself failed it advances the RunCounter.
C10_EmptyRun ==
    [][ (IsRun /\ current' = <<>>)
          => /\ price_changes' = <<>>
             /\ jsonBlob' = jsonBlob
             /\ csvBlob' = csvBlob
             /\ abortAt' # "counter"
                  => /\ runCountBlob' # <<>>
                     /\ CounterValue' = (CounterValue + 1) % NOTIFICATION_CHECKS_INTERVAL
      ]_vars

\* An empty invocation after a non-empty one: the previous Snapshot and the
\* History of the earlier invocation are still in storage and the counter
\* counts both.
C10_Witness ==
    /\ current = <<>>
    /\ jsonBlob # <<>>
    /\ csvBlob # <<>>
    /\ csvBlob[Len(csvBlob)].CheckTime < now
    /\ CounterValue >= 2

====
